---- MODULE Spec2Model ----
(***************************************************************************)
(* A model of paa_core/modeling/rpn/paa/loss.py: the PAA label assignment  *)
(* (PAALossComputation.compute_paa), the forward loss computation          *)
(* (PAALossComputation.__call__) and the Matcher it is configured with.    *)
(*                                                                         *)
(* Conventions.  Anchors and ranks are numbered from 1 (Python: from 0);   *)
(* ground-truth rows keep Python's numbering 0..num_gt-1, because the      *)
(* Matcher's sentinels are the negative indices -1 and -2.  An index       *)
(* tensor is a sequence; the index tensors of this code are never empty,   *)
(* so the empty sequence stands for Python's None.  One image is modelled. *)
(***************************************************************************)
EXTENDS Integers, Sequences, FiniteSets, TLC

\* ------------------------------------------------------------------ bounds
MaxGT == 2
NumClasses == 2
MaxLoss == 1
MaxLogLik == 1
TOPK == 2
MaxQuality == 2
MaxIoU == 1
MaxGpus == 2
MaxRemote == 1
CallMaxGT == 2

\* --------------------------------------------------------------- constants
INF == 100000000
BELOW_LOW_THRESHOLD == -1
BETWEEN_THRESHOLDS == -2

\* The anchors per pyramid level of the image that compute_paa is checked on,
\* and of the smaller image that a whole forward call is checked on.
ImageLevels == <<3, 1>>

CallImageLevels == <<1, 1>>

\* The same for the runs of the reordered loop.
ReorderedImageLevels == <<2, 1>>

VARIABLES
    pc,                      \* position in the code
    raised,                  \* the exception that left the function, or "none"
    num_gt,                  \* bboxes_per_im.shape[0]
    labels_per_im,           \* class of each ground-truth row
    bboxes_per_im,           \* box of each ground-truth row
    matched_idx_all_per_im,  \* the Matcher's output for each anchor
    labels_all_per_im,       \* the IoU-based label of each anchor
    loss_all_per_im,         \* the anchor score (combined loss) of each anchor
    candidate_idxs,          \* per ground-truth row: candidate anchors, or None
    cls_labels_per_im,       \* the final label of each anchor
    matched_gts,             \* the box each anchor regresses to
    reg_targets_per_im,      \* the encoded regression target of each anchor
    gt,                      \* the loop variable of the fit/partition/commit loop
    inds, components, scores,\* locals of the loop body: sort order and fit result
    is_pos, is_neg, is_grey, \* locals of the loop body: the partition
    match_quality_matrix,    \* the Matcher's input: quality per ground-truth and anchor
    iou_threshold,           \* cfg.MODEL.PAA.IOU_THRESHOLD, in units of 1/MaxQuality
    reg_loss_type,           \* cfg.MODEL.PAA.REG_LOSS_TYPE, a sequence of characters
    use_iou_pred,            \* iou_pred is not None
    num_gpus,                \* get_num_gpus()
    num_anchors_per_level,   \* len(anchors_per_level.bbox) for each pyramid level
    ious,                    \* the IoU of each positive anchor's predicted and target box
    num_pos_avg_per_gpu,     \* local of __call__: a fraction <<p, q>>, <<>> while unassigned
    sum_ious_targets_avg_per_gpu, \* local of __call__: a fraction, <<>> while unassigned
    cls_loss, reg_loss, iou_pred_loss, \* locals of __call__: "unbound" while unassigned
    res,                     \* the returned losses
    fit_results,             \* per ground-truth row, the fit's result kept for a reordered loop
    written                  \* per ground-truth row, how many of its writes are done

vars == <<pc, raised, num_gt, labels_per_im, bboxes_per_im, matched_idx_all_per_im,
          labels_all_per_im, loss_all_per_im, candidate_idxs, cls_labels_per_im,
          matched_gts, reg_targets_per_im, gt, inds, components, scores,
          is_pos, is_neg, is_grey, match_quality_matrix, iou_threshold, reg_loss_type,
          use_iou_pred, num_gpus, num_anchors_per_level, ious, num_pos_avg_per_gpu,
          sum_ious_targets_avg_per_gpu, cls_loss, reg_loss, iou_pred_loss, res,
          fit_results, written>>

\* The variables of the Matcher and of __call__ outside compute_paa.
matcherVars == <<match_quality_matrix, iou_threshold>>

\* The variables of the reordered loop.
orderVars == <<fit_results, written>>

configVars == <<reg_loss_type, use_iou_pred, num_gpus, num_anchors_per_level>>

lossVars == <<ious, num_pos_avg_per_gpu, sum_ious_targets_avg_per_gpu,
              cls_loss, reg_loss, iou_pred_loss, res>>

\* ----------------------------------------------------------------- helpers
None == <<>>

Min(a, b) == IF a < b THEN a ELSE b

Range(s) == {s[i] : i \in DOMAIN s}

Injective(s) == \A i, j \in DOMAIN s : i # j => s[i] # s[j]

RECURSIVE SumSeq(_)
SumSeq(s) == IF s = <<>> THEN 0 ELSE Head(s) + SumSeq(Tail(s))

NumLevels == Len(num_anchors_per_level)

\* anchors_per_im.bbox.shape[0]
n_labels == SumSeq(num_anchors_per_level)

Anchors == 1..n_labels

GTs(n) == 0..(n - 1)

\* The running offsets of the level loop.
star_idx(level) == SumSeq(SubSeq(num_anchors_per_level, 1, level - 1))

end_idx(level) == star_idx(level) + num_anchors_per_level[level]

\* box_coder.encode(box, anchor): the offsets of a box relative to an anchor,
\* here the pair itself (the coder is outside this repository's files).
Encode(box, anchor) == <<box, anchor>>

\* The Matcher's and the loss's variables before they are set.
NoMatcher == match_quality_matrix = <<>> /\ iou_threshold = 0

NoOrder == fit_results = <<>> /\ written = <<>>

NoLosses ==
    /\ ious = <<>>
    /\ num_pos_avg_per_gpu = <<>>
    /\ sum_ious_targets_avg_per_gpu = <<>>
    /\ cls_loss = "unbound"
    /\ reg_loss = "unbound"
    /\ iou_pred_loss = "unbound"
    /\ res = <<>>

\* ------------------------------------------------- prepare_iou_based_targets
\* The IoU-based label of an anchor from the Matcher's index for it.
IoUBasedLabel(classes, m) ==
    IF m = BELOW_LOW_THRESHOLD THEN 0
    ELSE IF m = BETWEEN_THRESHOLDS THEN -1
    ELSE classes[m]

\* ------------------------------------------------- compute_paa: candidates
\* A mask without the comparison to the ground-truth index: every anchor with
\* a positive IoU-based label (differs from match_idx below).
match_idx_AnyPositive(level, g) ==
    {i \in 1..num_anchors_per_level[level] :
        labels_all_per_im[star_idx(level) + i] > 0}

\* torch.nonzero((matched_idx_per_level == gt) & (labels_per_level > 0)):
\* positions within the level.
match_idx(level, g) ==
    {i \in 1..num_anchors_per_level[level] :
        /\ matched_idx_all_per_im[star_idx(level) + i] = g
        /\ labels_all_per_im[star_idx(level) + i] > 0}

\* loss_per_level[match_idx].topk(min(numel, TOPK), largest=False): every result
\* topk may return (ties are broken arbitrarily), as positions within the level,
\* in ascending order of loss.
TopkChoices(level, g) ==
    LET E == match_idx(level, g)
        k == Min(Cardinality(E), TOPK)
        loss(i) == loss_all_per_im[star_idx(level) + i]
    IN  {s \in [1..k -> E] :
            /\ Injective(s)
            /\ \A i, j \in 1..k : i < j => loss(s[i]) <= loss(s[j])
            /\ \A e \in E \ Range(s) : \A i \in 1..k : loss(s[i]) <= loss(e)}

\* A concatenation that keeps the positions within the level, without the
\* level's offset (differs from Shift below).
Shift_NoOffset(s, off) == s

\* topk_idxs_per_level_per_gt + star_idx
Shift(s, off) == [i \in DOMAIN s |-> s[i] + off]

\* torch.cat(candidate_idxs_per_gt) over the levels from `level` on; None (the
\* empty sequence) when no level has a matching anchor.
RECURSIVE CandidateChoices(_, _)
CandidateChoices(level, g) ==
    IF level > NumLevels THEN {<<>>}
    ELSE {Shift(s, star_idx(level)) \o rest :
            s \in TopkChoices(level, g), rest \in CandidateChoices(level + 1, g)}

\* matched_gts = zeros; matched_gts[fg_inds] = bboxes_per_im[matched_idx[fg_inds]]
InitialMatchedGts ==
    [a \in Anchors |->
        IF matched_idx_all_per_im[a] >= 0
        THEN bboxes_per_im[matched_idx_all_per_im[a]] ELSE 0]

SelectCandidates ==
    /\ pc = "select"
    /\ \E c \in [GTs(num_gt) -> UNION {CandidateChoices(1, g) : g \in GTs(num_gt)}] :
        /\ \A g \in GTs(num_gt) : c[g] \in CandidateChoices(1, g)
        /\ candidate_idxs' = c
    /\ cls_labels_per_im' = [a \in Anchors |-> 0]
    /\ matched_gts' = InitialMatchedGts
    /\ is_grey' = None
    /\ gt' = 0
    /\ pc' = "loop"
    /\ UNCHANGED <<raised, num_gt, labels_per_im, bboxes_per_im, matched_idx_all_per_im,
                   labels_all_per_im, loss_all_per_im, reg_targets_per_im, inds,
                   components, scores, is_pos, is_neg>>
    /\ UNCHANGED <<matcherVars, orderVars, configVars, lossVars>>

\* ------------------------------------------ compute_paa: fit/partition/commit
\* candidate_loss.sort(): every ascending order of the candidates' positions.
SortChoices(cand) ==
    {p \in [1..Len(cand) -> 1..Len(cand)] :
        /\ Injective(p)
        /\ \A i, j \in 1..Len(cand) :
            i < j => loss_all_per_im[cand[p[i]]] <= loss_all_per_im[cand[p[j]]]}

MaxOf(S) == CHOOSE x \in S : \A y \in S : y <= x

MinOf(S) == CHOOSE x \in S : \A y \in S : x <= y

\* fgs = components == 0
fgs(comp) == {r \in DOMAIN comp : comp[r] = 0}

\* bgs = components == 1
bgs(comp) == {r \in DOMAIN comp : comp[r] = 1}

\* A variant of fg_max_idx: the highest rank on ties (.max() for .min()).
fg_max_idx_LastOnTies(comp, sc) ==
    LET fg_max_score == CHOOSE x \in {sc[r] : r \in {q \in DOMAIN comp : comp[q] = 0}} :
                            \A y \in {sc[r] : r \in {q \in DOMAIN comp : comp[q] = 0}} : y <= x
        best == {r \in DOMAIN comp : comp[r] = 0 /\ sc[r] = fg_max_score}
    IN  CHOOSE x \in best : \A y \in best : y <= x

\* fg_max_score = scores[fgs].max();
\* fg_max_idx = torch.nonzero(fgs & (scores == fg_max_score)).min()
fg_max_idx(comp, sc) ==
    LET fg_max_score == MaxOf({sc[r] : r \in fgs(comp)})
    IN  MinOf({r \in fgs(comp) : sc[r] = fg_max_score})

\* s[mask]: the elements of s at the ranks of the mask, in order.
RECURSIVE MaskSelect(_, _)
MaskSelect(s, mask) ==
    IF s = <<>> THEN <<>>
    ELSE LET front == MaskSelect(SubSeq(s, 1, Len(s) - 1), mask)
         IN  IF Len(s) \in mask THEN Append(front, s[Len(s)]) ELSE front

\* A variant of PositivePart: the slice inds[:fg_max_idx] (the cutoff excluded).
PositivePart_CutoffExcluded(sorted, comp, sc) ==
    IF fgs(comp) # {}
    THEN SubSeq(sorted, 1, fg_max_idx(comp, sc) - 1)
    ELSE sorted

\* A variant of PositivePart: without component 0, only the first candidate.
PositivePart_FallbackFirstOnly(sorted, comp, sc) ==
    IF fgs(comp) # {}
    THEN SubSeq(sorted, 1, fg_max_idx(comp, sc))
    ELSE SubSeq(sorted, 1, 1)

\* The partition of lines 208-219: <<is_pos, is_neg>> as ranks into candidate_idxs[gt].
PositivePart(sorted, comp, sc) ==
    IF fgs(comp) # {}
    THEN SubSeq(sorted, 1, fg_max_idx(comp, sc))
    ELSE sorted

NegativePart(sorted, comp) ==
    IF fgs(comp) # {}
    THEN MaskSelect(sorted, fgs(comp) \cup bgs(comp))
    ELSE None

\* A write that indexes the array with the positions themselves, without
\* going through the candidate list (differs from WriteAt below).
WriteAt_NoIndirection(arr, cand, idx, value) ==
    [a \in DOMAIN arr |->
        IF \E i \in DOMAIN idx : idx[i] = a THEN value ELSE arr[a]]

\* cls_labels_per_im[candidate_idxs[gt][idx]] = value
WriteAt(arr, cand, idx, value) ==
    [a \in DOMAIN arr |->
        IF \E i \in DOMAIN idx : cand[idx[i]] = a THEN value ELSE arr[a]]

\* Lines 224-231: the grey, negative and positive writes, in this order.
CommitLabels(labels, cand, grey, neg, pos, class) ==
    LET l1 == IF grey # None THEN WriteAt(labels, cand, grey, -1) ELSE labels
        l2 == IF neg # None THEN WriteAt(l1, cand, neg, 0) ELSE l1
    IN  WriteAt(l2, cand, pos, class)

\* Line 232: matched_gts[pos_idx] = bboxes_per_im[gt]
CommitBoxes(boxes, cand, pos, box) == WriteAt(boxes, cand, pos, box)

\* A variant of Commit: the box of row 0 (the clamped index) for every row.
Commit_BoxOfRowZero(pos, neg, grey) ==
    /\ cls_labels_per_im' = CommitLabels(cls_labels_per_im, candidate_idxs[gt],
                                         grey, neg, pos, labels_per_im[gt])
    /\ matched_gts' = CommitBoxes(matched_gts, candidate_idxs[gt], pos, bboxes_per_im[0])

Commit(pos, neg, grey) ==
    /\ cls_labels_per_im' = CommitLabels(cls_labels_per_im, candidate_idxs[gt],
                                         grey, neg, pos, labels_per_im[gt])
    /\ matched_gts' = CommitBoxes(matched_gts, candidate_idxs[gt], pos, bboxes_per_im[gt])

InLoop == pc = "loop" /\ gt < num_gt

\* candidate_idxs[gt] is None: nothing is written.
GtSkip ==
    /\ InLoop
    /\ candidate_idxs[gt] = None
    /\ gt' = gt + 1
    /\ UNCHANGED <<pc, raised, num_gt, labels_per_im, bboxes_per_im, matched_idx_all_per_im,
                   labels_all_per_im, loss_all_per_im, candidate_idxs, cls_labels_per_im,
                   matched_gts, reg_targets_per_im, inds, components, scores,
                   is_pos, is_neg, is_grey>>
    /\ UNCHANGED <<matcherVars, orderVars, configVars, lossVars>>

\* A loop that drops a ground-truth with a single candidate as it drops one
\* with none (differs from GtSingle below).
GtSingle_Skipped ==
    /\ InLoop
    /\ Len(candidate_idxs[gt]) = 1
    /\ gt' = gt + 1
    /\ UNCHANGED <<pc, raised, num_gt, labels_per_im, bboxes_per_im, matched_idx_all_per_im,
                   labels_all_per_im, loss_all_per_im, candidate_idxs, cls_labels_per_im,
                   matched_gts, reg_targets_per_im, inds, components, scores,
                   is_pos, is_neg, is_grey>>
    /\ UNCHANGED <<matcherVars, orderVars, configVars, lossVars>>

\* Exactly one candidate: is_pos = 0, is_neg = is_grey = None, no fit.
GtSingle ==
    /\ InLoop
    /\ Len(candidate_idxs[gt]) = 1
    /\ is_pos' = <<1>>
    /\ is_neg' = None
    /\ is_grey' = None
    /\ Commit(<<1>>, None, None)
    /\ gt' = gt + 1
    /\ UNCHANGED <<pc, raised, num_gt, labels_per_im, bboxes_per_im, matched_idx_all_per_im,
                   labels_all_per_im, loss_all_per_im, candidate_idxs,
                   reg_targets_per_im, inds, components, scores>>
    /\ UNCHANGED <<matcherVars, orderVars, configVars, lossVars>>

\* Two or more candidates and the mixture fit returns: any component labels and
\* log-likelihoods, per rank of the ascending order.
GtMixture ==
    /\ InLoop
    /\ Len(candidate_idxs[gt]) > 1
    /\ \E p \in SortChoices(candidate_idxs[gt]) :
       \E comp \in [1..Len(candidate_idxs[gt]) -> {0, 1}] :
       \E sc \in [1..Len(candidate_idxs[gt]) -> 0..MaxLogLik] :
        LET pos == PositivePart(p, comp, sc)
            neg == NegativePart(p, comp)
            grey == IF fgs(comp) # {} THEN is_grey ELSE None
        IN  /\ inds' = p
            /\ components' = comp
            /\ scores' = sc
            /\ is_pos' = pos
            /\ is_neg' = neg
            /\ is_grey' = grey
            /\ Commit(pos, neg, grey)
    /\ gt' = gt + 1
    /\ UNCHANGED <<pc, raised, num_gt, labels_per_im, bboxes_per_im, matched_idx_all_per_im,
                   labels_all_per_im, loss_all_per_im, candidate_idxs, reg_targets_per_im>>
    /\ UNCHANGED <<matcherVars, orderVars, configVars, lossVars>>

\* Two or more candidates and gmm.fit / predict / score_samples raises: nothing
\* catches the exception, which leaves compute_paa.
GtFitRaises ==
    /\ InLoop
    /\ Len(candidate_idxs[gt]) > 1
    /\ \E p \in SortChoices(candidate_idxs[gt]) : inds' = p
    /\ raised' = "MixtureFitError"
    /\ pc' = "raised"
    /\ UNCHANGED <<num_gt, labels_per_im, bboxes_per_im, matched_idx_all_per_im,
                   labels_all_per_im, loss_all_per_im, candidate_idxs, cls_labels_per_im,
                   matched_gts, reg_targets_per_im, gt, components, scores,
                   is_pos, is_neg, is_grey>>
    /\ UNCHANGED <<matcherVars, orderVars, configVars, lossVars>>

\* Lines 234-238: encode the matched boxes and return.
ReturnTargets ==
    /\ pc = "loop"
    /\ gt = num_gt
    /\ reg_targets_per_im' = [a \in Anchors |-> Encode(matched_gts[a], a)]
    /\ pc' = "done"
    /\ UNCHANGED <<raised, num_gt, labels_per_im, bboxes_per_im, matched_idx_all_per_im,
                   labels_all_per_im, loss_all_per_im, candidate_idxs, cls_labels_per_im,
                   matched_gts, gt, inds, components, scores, is_pos, is_neg, is_grey>>
    /\ UNCHANGED <<matcherVars, orderVars, configVars, lossVars>>

\* ------------------------------------------------------------ specification
\* The arguments of compute_paa for one image: ground-truth rows with classes
\* >= 1 and pairwise distinct boxes (row g's box is named g + 1; 0 names the
\* all-zero box of torch.zeros_like), the Matcher's index per anchor (thresholds
\* are equal, so never BETWEEN_THRESHOLDS), the IoU-based labels that
\* prepare_iou_based_targets derives from it, and the anchor scores: a finite
\* score where the IoU-based label is positive, INF elsewhere.
Init ==
    /\ num_anchors_per_level = ImageLevels
    /\ pc = "select"
    /\ raised = "none"
    /\ num_gt \in 0..MaxGT
    /\ labels_per_im \in [GTs(num_gt) -> 1..NumClasses]
    /\ bboxes_per_im = [g \in GTs(num_gt) |-> g + 1]
    /\ matched_idx_all_per_im \in [Anchors -> {BELOW_LOW_THRESHOLD} \cup GTs(num_gt)]
    /\ labels_all_per_im =
         [a \in Anchors |-> IoUBasedLabel(labels_per_im, matched_idx_all_per_im[a])]
    /\ loss_all_per_im \in
         {l \in [Anchors -> 0..MaxLoss \cup {INF}] :
            \A a \in Anchors : (l[a] = INF) <=> (labels_all_per_im[a] <= 0)}
    /\ candidate_idxs = <<>>
    /\ cls_labels_per_im = <<>>
    /\ matched_gts = <<>>
    /\ reg_targets_per_im = <<>>
    /\ gt = 0
    /\ inds = None
    /\ components = <<>>
    /\ scores = <<>>
    /\ is_pos = None
    /\ is_neg = None
    /\ is_grey = None
    /\ NoMatcher
    /\ NoOrder
    /\ reg_loss_type = <<>>
    /\ use_iou_pred = FALSE
    /\ num_gpus = 1
    /\ NoLosses

Next ==
    \/ SelectCandidates
    \/ GtSkip
    \/ GtSingle
    \/ GtMixture
    \/ GtFitRaises
    \/ ReturnTargets

Spec == Init /\ [][Next]_vars

\* ------------------------------------------- compute_paa: the loop reordered
\* The loop of lines 189-232 with its per-row steps taken apart. The fit of a
\* row (lines 192-205) reads candidate_idxs and loss_all_per_im only, which the
\* loop never writes, so every row's fit result is drawn first and kept in
\* fit_results; the writes of the rows (lines 224-232) then run in any
\* serialized interleaving, each row's own writes in program order.

\* Every result the fit of row g can return; None for a row without the fit.
FitChoices(g) ==
    IF Len(candidate_idxs[g]) <= 1 THEN {None}
    ELSE {[inds |-> p, components |-> comp, scores |-> sc] :
            p \in SortChoices(candidate_idxs[g]),
            comp \in [1..Len(candidate_idxs[g]) -> {0, 1}],
            sc \in [1..Len(candidate_idxs[g]) -> 0..MaxLogLik]}

\* The fit result kept for row g (fit_results is 1-based).
FitOf(g) == fit_results[g + 1]

\* is_pos of row g: lines 215, 218 and 221.
RowPos(g) ==
    IF Len(candidate_idxs[g]) = 1 THEN <<1>>
    ELSE PositivePart(FitOf(g).inds, FitOf(g).components, FitOf(g).scores)

\* is_neg of row g: lines 214, 219 and 222.
RowNeg(g) ==
    IF Len(candidate_idxs[g]) = 1 THEN None
    ELSE NegativePart(FitOf(g).inds, FitOf(g).components)

\* Lines 191-223 for the next row without a fit result yet.
FitRow ==
    /\ pc = "loop"
    /\ Len(fit_results) < num_gt
    /\ \E f \in FitChoices(Len(fit_results)) : fit_results' = Append(fit_results, f)
    /\ UNCHANGED <<pc, raised, num_gt, labels_per_im, bboxes_per_im, matched_idx_all_per_im,
                   labels_all_per_im, loss_all_per_im, candidate_idxs, cls_labels_per_im,
                   matched_gts, reg_targets_per_im, gt, inds, components, scores,
                   is_pos, is_neg, is_grey, written>>
    /\ UNCHANGED <<matcherVars, configVars, lossVars>>

AllFitted == pc = "loop" /\ Len(fit_results) = num_gt

\* Line 190: a row without candidates writes nothing.
RowSkip ==
    /\ AllFitted
    /\ \E g \in GTs(num_gt) :
        /\ written[g] = 0
        /\ candidate_idxs[g] = None
        /\ written' = [written EXCEPT ![g] = 3]
        /\ gt' = g
    /\ UNCHANGED <<pc, raised, num_gt, labels_per_im, bboxes_per_im, matched_idx_all_per_im,
                   labels_all_per_im, loss_all_per_im, candidate_idxs, cls_labels_per_im,
                   matched_gts, reg_targets_per_im, inds, components, scores,
                   is_pos, is_neg, is_grey, fit_results>>
    /\ UNCHANGED <<matcherVars, configVars, lossVars>>

\* Lines 224-229 of a row: is_grey is None throughout (lines 188, 219, 223),
\* the negative candidates get label 0.
WriteNegativeLabels ==
    /\ AllFitted
    /\ \E g \in GTs(num_gt) :
        /\ written[g] = 0
        /\ candidate_idxs[g] # None
        /\ cls_labels_per_im' =
              IF RowNeg(g) # None
              THEN WriteAt(cls_labels_per_im, candidate_idxs[g], RowNeg(g), 0)
              ELSE cls_labels_per_im
        /\ written' = [written EXCEPT ![g] = 1]
        /\ gt' = g
    /\ UNCHANGED <<pc, raised, num_gt, labels_per_im, bboxes_per_im, matched_idx_all_per_im,
                   labels_all_per_im, loss_all_per_im, candidate_idxs,
                   matched_gts, reg_targets_per_im, inds, components, scores,
                   is_pos, is_neg, is_grey, fit_results>>
    /\ UNCHANGED <<matcherVars, configVars, lossVars>>

\* Lines 230-231 of a row: the positive candidates get the row's class.
WritePositiveLabels ==
    /\ AllFitted
    /\ \E g \in GTs(num_gt) :
        /\ written[g] = 1
        /\ cls_labels_per_im' =
              WriteAt(cls_labels_per_im, candidate_idxs[g], RowPos(g), labels_per_im[g])
        /\ written' = [written EXCEPT ![g] = 2]
        /\ gt' = g
    /\ UNCHANGED <<pc, raised, num_gt, labels_per_im, bboxes_per_im, matched_idx_all_per_im,
                   labels_all_per_im, loss_all_per_im, candidate_idxs,
                   matched_gts, reg_targets_per_im, inds, components, scores,
                   is_pos, is_neg, is_grey, fit_results>>
    /\ UNCHANGED <<matcherVars, configVars, lossVars>>

\* Line 232 of a row: the positive candidates get the row's box.
WritePositiveBoxes ==
    /\ AllFitted
    /\ \E g \in GTs(num_gt) :
        /\ written[g] = 2
        /\ matched_gts' =
              WriteAt(matched_gts, candidate_idxs[g], RowPos(g), bboxes_per_im[g])
        /\ written' = [written EXCEPT ![g] = 3]
        /\ gt' = g
    /\ UNCHANGED <<pc, raised, num_gt, labels_per_im, bboxes_per_im, matched_idx_all_per_im,
                   labels_all_per_im, loss_all_per_im, candidate_idxs, cls_labels_per_im,
                   reg_targets_per_im, inds, components, scores,
                   is_pos, is_neg, is_grey, fit_results>>
    /\ UNCHANGED <<matcherVars, configVars, lossVars>>

\* Lines 234-238, once every row has done its writes.
ReturnTargetsReordered ==
    /\ AllFitted
    /\ \A g \in GTs(num_gt) : written[g] = 3
    /\ reg_targets_per_im' = [a \in Anchors |-> Encode(matched_gts[a], a)]
    /\ pc' = "done"
    /\ UNCHANGED <<raised, num_gt, labels_per_im, bboxes_per_im, matched_idx_all_per_im,
                   labels_all_per_im, loss_all_per_im, candidate_idxs, cls_labels_per_im,
                   matched_gts, gt, inds, components, scores, is_pos, is_neg, is_grey>>
    /\ UNCHANGED <<matcherVars, orderVars, configVars, lossVars>>

\* The label array after the loop of lines 189-232 has processed the rows
\* 0 .. n - 1 in the order of the code, with the kept fit results.
RECURSIVE LabelsInCodeOrder(_)
LabelsInCodeOrder(n) ==
    IF n = 0 THEN [a \in Anchors |-> 0]
    ELSE IF candidate_idxs[n - 1] = None THEN LabelsInCodeOrder(n - 1)
    ELSE CommitLabels(LabelsInCodeOrder(n - 1), candidate_idxs[n - 1], None,
                      RowNeg(n - 1), RowPos(n - 1), labels_per_im[n - 1])

\* The box array after the same loop.
RECURSIVE BoxesInCodeOrder(_)
BoxesInCodeOrder(n) ==
    IF n = 0 THEN InitialMatchedGts
    ELSE IF candidate_idxs[n - 1] = None THEN BoxesInCodeOrder(n - 1)
    ELSE CommitBoxes(BoxesInCodeOrder(n - 1), candidate_idxs[n - 1],
                     RowPos(n - 1), bboxes_per_im[n - 1])

\* The arguments of compute_paa as in Init, with no write done for any row.
InitReordered ==
    /\ num_anchors_per_level = ReorderedImageLevels
    /\ pc = "select"
    /\ raised = "none"
    /\ num_gt \in 0..MaxGT
    /\ labels_per_im \in [GTs(num_gt) -> 1..NumClasses]
    /\ bboxes_per_im = [g \in GTs(num_gt) |-> g + 1]
    /\ matched_idx_all_per_im \in [Anchors -> {BELOW_LOW_THRESHOLD} \cup GTs(num_gt)]
    /\ labels_all_per_im =
         [a \in Anchors |-> IoUBasedLabel(labels_per_im, matched_idx_all_per_im[a])]
    /\ loss_all_per_im \in
         {l \in [Anchors -> 0..MaxLoss \cup {INF}] :
            \A a \in Anchors : (l[a] = INF) <=> (labels_all_per_im[a] <= 0)}
    /\ candidate_idxs = <<>>
    /\ cls_labels_per_im = <<>>
    /\ matched_gts = <<>>
    /\ reg_targets_per_im = <<>>
    /\ gt = 0
    /\ inds = None
    /\ components = <<>>
    /\ scores = <<>>
    /\ is_pos = None
    /\ is_neg = None
    /\ is_grey = None
    /\ NoMatcher
    /\ fit_results = <<>>
    /\ written = [g \in GTs(num_gt) |-> 0]
    /\ reg_loss_type = <<>>
    /\ use_iou_pred = FALSE
    /\ num_gpus = 1
    /\ NoLosses

NextReordered ==
    \/ SelectCandidates
    \/ FitRow
    \/ RowSkip
    \/ WriteNegativeLabels
    \/ WritePositiveLabels
    \/ WritePositiveBoxes
    \/ ReturnTargetsReordered

SpecReordered == InitReordered /\ [][NextReordered]_vars

\* ------------------------------------------------------------------ Matcher
\* The Matcher (paa_core.modeling.matcher) as spec section 4.2 describes it;
\* its code is not among this repository's files.  Q[g][a] is the quality of
\* ground-truth g and anchor a in units of 1/MaxQuality.

\* For an anchor, the maximum quality over the ground-truths.
matched_vals(Q, n, a) == MaxOf({Q[g][a] : g \in GTs(n)})

\* For an anchor, the ground-truth of maximum quality, the lowest index on ties.
matches(Q, n, a) == MinOf({g \in GTs(n) : Q[g][a] = matched_vals(Q, n, a)})

\* For a ground-truth, its own maximum quality over the anchors.
highest_quality_foreach_gt(Q, g) == MaxOf({Q[g][a] : a \in Anchors})

\* The anchors that achieve the maximum quality of some ground-truth.
LowQualityAnchors(Q, n) ==
    {a \in Anchors : \E g \in GTs(n) : Q[g][a] = highest_quality_foreach_gt(Q, g)}

\* The thresholded match of an anchor.
Thresholded(Q, n, low, high, a) ==
    IF matched_vals(Q, n, a) < low THEN BELOW_LOW_THRESHOLD
    ELSE IF matched_vals(Q, n, a) < high THEN BETWEEN_THRESHOLDS
    ELSE matches(Q, n, a)

\* A variant of Matcher: the allow-low-quality-matches mode is ignored.
Matcher_NoLowQuality(Q, n, low, high, allow) ==
    [a \in Anchors |-> Thresholded(Q, n, low, high, a)]

\* Matcher(low, high, allow_low_quality_matches)(Q): an anchor forced by the
\* low-quality mode keeps its own best ground-truth.
Matcher(Q, n, low, high, allow) ==
    [a \in Anchors |->
        IF allow /\ a \in LowQualityAnchors(Q, n)
        THEN matches(Q, n, a)
        ELSE Thresholded(Q, n, low, high, a)]

\* prepare_iou_based_targets, lines 105-119, for one image: the Matcher built at
\* lines 39-41 (both thresholds IOU_THRESHOLD, low-quality matches allowed) on
\* the quality matrix, then the IoU-based labels.
MatchTargets ==
    /\ pc = "match"
    /\ matched_idx_all_per_im' =
         Matcher(match_quality_matrix, num_gt, iou_threshold, iou_threshold, TRUE)
    /\ labels_all_per_im' =
         [a \in Anchors |-> IoUBasedLabel(labels_per_im, matched_idx_all_per_im'[a])]
    /\ pc' = "matched"
    /\ UNCHANGED <<raised, num_gt, labels_per_im, bboxes_per_im, loss_all_per_im,
                   candidate_idxs, cls_labels_per_im, matched_gts, reg_targets_per_im,
                   gt, inds, components, scores, is_pos, is_neg, is_grey>>
    /\ UNCHANGED <<matcherVars, orderVars, configVars, lossVars>>

\* The locals of compute_paa before it is entered.
NoAssignment ==
    /\ loss_all_per_im = <<>>
    /\ candidate_idxs = <<>>
    /\ cls_labels_per_im = <<>>
    /\ matched_gts = <<>>
    /\ reg_targets_per_im = <<>>
    /\ gt = 0
    /\ inds = None
    /\ components = <<>>
    /\ scores = <<>>
    /\ is_pos = None
    /\ is_neg = None
    /\ is_grey = None

\* An image with at least one ground-truth row and any quality matrix.
InitMatcher ==
    /\ num_anchors_per_level = ImageLevels
    /\ pc = "match"
    /\ raised = "none"
    /\ num_gt \in 1..MaxGT
    /\ labels_per_im \in [GTs(num_gt) -> 1..NumClasses]
    /\ bboxes_per_im = [g \in GTs(num_gt) |-> g + 1]
    /\ match_quality_matrix \in [GTs(num_gt) -> [Anchors -> 0..MaxQuality]]
    /\ iou_threshold \in 1..MaxQuality
    /\ matched_idx_all_per_im = <<>>
    /\ labels_all_per_im = <<>>
    /\ NoAssignment
    /\ NoOrder
    /\ reg_loss_type = <<>>
    /\ use_iou_pred = FALSE
    /\ num_gpus = 1
    /\ NoLosses

NextMatcher == MatchTargets

SpecMatcher == InitMatcher /\ [][NextMatcher]_vars

\* ----------------------------------------------------------------- __call__
\* Configured regression-loss kinds, as sequences of characters.
Kind_giou == <<"g", "i", "o", "u">>

Kind_diou == <<"d", "i", "o", "u">>

Kind_smoothl1 == <<"s", "m", "o", "o", "t", "h", "l", "1">>

Kind_smooth_l1 == <<"s", "m", "o", "o", "t", "h", "-", "l", "1">>

Kind_l1 == <<"l", "1">>

RegLossTypes == {Kind_giou, Kind_diou, Kind_smoothl1, Kind_smooth_l1, Kind_l1}

\* Python's `sub in s` on strings.
Contains(sub, s) ==
    \E i \in 0..(Len(s) - Len(sub)) : SubSeq(s, i + 1, i + Len(sub)) = sub

\* compute_reg_loss, lines 243-257: the branch a kind takes.  The smooth-L1
\* branch reads self.bbox_reg_beta, which __init__ never sets.
RegLossBranch(kind) ==
    IF Contains(<<"i", "o", "u">>, kind) THEN "GIoULoss"
    ELSE IF kind = Kind_smoothl1 THEN "AttributeError"
    ELSE "NotImplementedError"

\* reduce_sum(tensor): the tensor itself on one worker, else the sum over the
\* workers (remote: the other workers' part).
reduce_sum(local, remote) == IF num_gpus <= 1 THEN local ELSE local + remote

\* max(total_num_pos / float(num_gpus), 1.0), as a fraction.
FlooredAverage(total, n) == IF total >= n THEN <<total, n>> ELSE <<1, 1>>

\* x / norm on floats: a tensor divided by zero is inf or nan, not an error.
Divide(x, norm) ==
    IF norm[1] # 0 THEN x
    ELSE IF x = "zero" THEN "nan" ELSE "inf"

\* pos_inds of line 288 / line 322
IoUPositives == {a \in Anchors : labels_all_per_im[a] > 0}

FinalPositives == {a \in Anchors : cls_labels_per_im[a] > 0}

RECURSIVE SumOver(_, _)
SumOver(f, S) ==
    IF S = {} THEN 0
    ELSE LET x == CHOOSE y \in S : TRUE IN f[x] + SumOver(f, S \ {x})

\* Lines 272-288: the IoU-based targets of the image.  The Matcher's result is
\* any index vector without BETWEEN_THRESHOLDS (both thresholds are equal).
PrepareTargets ==
    /\ pc = "call"
    /\ \E m \in [Anchors -> {BELOW_LOW_THRESHOLD} \cup GTs(num_gt)] :
        /\ matched_idx_all_per_im' = m
        /\ labels_all_per_im' = [a \in Anchors |-> IoUBasedLabel(labels_per_im, m[a])]
    /\ pc' = "prepared"
    /\ UNCHANGED <<raised, num_gt, labels_per_im, bboxes_per_im, loss_all_per_im,
                   candidate_idxs, cls_labels_per_im, matched_gts, reg_targets_per_im,
                   gt, inds, components, scores, is_pos, is_neg, is_grey>>
    /\ UNCHANGED <<matcherVars, orderVars, configVars, lossVars>>

\* Lines 290-317 with a kind that takes the GIoU branch: the anchor scores
\* (any finite score for an IoU-positive anchor, INF elsewhere), then compute_paa.
ScoreAnchors ==
    /\ pc = "prepared"
    /\ IoUPositives # {}
    /\ RegLossBranch(reg_loss_type) = "GIoULoss"
    /\ loss_all_per_im' \in
         {l \in [Anchors -> 0..MaxLoss \cup {INF}] :
            \A a \in Anchors : (l[a] = INF) <=> (labels_all_per_im[a] <= 0)}
    /\ pc' = "select"
    /\ UNCHANGED <<raised, num_gt, labels_per_im, bboxes_per_im, matched_idx_all_per_im,
                   labels_all_per_im, candidate_idxs, cls_labels_per_im, matched_gts,
                   reg_targets_per_im, gt, inds, components, scores,
                   is_pos, is_neg, is_grey>>
    /\ UNCHANGED <<matcherVars, orderVars, configVars, lossVars>>

\* Line 298 with any other kind: compute_reg_loss raises.
RegLossRaises ==
    /\ pc = "prepared"
    /\ IoUPositives # {}
    /\ RegLossBranch(reg_loss_type) # "GIoULoss"
    /\ raised' = RegLossBranch(reg_loss_type)
    /\ pc' = "raised"
    /\ UNCHANGED <<num_gt, labels_per_im, bboxes_per_im, matched_idx_all_per_im,
                   labels_all_per_im, loss_all_per_im, candidate_idxs, cls_labels_per_im,
                   matched_gts, reg_targets_per_im, gt, inds, components, scores,
                   is_pos, is_neg, is_grey>>
    /\ UNCHANGED <<matcherVars, orderVars, configVars, lossVars>>

\* Lines 353-354: no IoU-positive anchor, only reg_loss is assigned.
ZeroPositives ==
    /\ pc = "prepared"
    /\ IoUPositives = {}
    /\ \E r \in {"zero", "positive", "negative"} : reg_loss' = r
    /\ pc' = "result"
    /\ UNCHANGED <<raised, num_gt, labels_per_im, bboxes_per_im, matched_idx_all_per_im,
                   labels_all_per_im, loss_all_per_im, candidate_idxs, cls_labels_per_im,
                   matched_gts, reg_targets_per_im, gt, inds, components, scores,
                   is_pos, is_neg, is_grey>>
    /\ UNCHANGED <<matcherVars, orderVars, configVars, ious, num_pos_avg_per_gpu,
                   sum_ious_targets_avg_per_gpu, cls_loss, iou_pred_loss, res>>

\* Lines 319-352, after compute_paa returned: the normalizers and the loss sums.
\* The IoU of each positive anchor's predicted and target box is any value in
\* units of 1/MaxIoU; the other workers contribute any count and any IoU sum.
Aggregate ==
    /\ pc = "done"
    /\ \E remote_pos \in 0..MaxRemote, remote_ious \in 0..MaxRemote :
       \E i \in [Anchors -> 0..MaxIoU] :
        LET total_num_pos == reduce_sum(Cardinality(FinalPositives), remote_pos)
            weighted == use_iou_pred /\ SumOver(i, FinalPositives) > 0
        IN  /\ \A a \in Anchors : (a \notin FinalPositives \/ ~use_iou_pred) => i[a] = 0
            /\ num_pos_avg_per_gpu' = FlooredAverage(total_num_pos, num_gpus)
            /\ ious' = IF use_iou_pred THEN i ELSE ious
            /\ iou_pred_loss' = IF use_iou_pred THEN "positive" ELSE iou_pred_loss
            /\ sum_ious_targets_avg_per_gpu' =
                 IF use_iou_pred
                 THEN <<reduce_sum(SumOver(i, FinalPositives), remote_ious),
                        num_gpus * MaxIoU>>
                 ELSE sum_ious_targets_avg_per_gpu
            \* GIoULoss, lines 84-88: unweighted losses must not be empty.
            /\ IF ~weighted /\ FinalPositives = {}
               THEN raised' = "AssertionError" /\ pc' = "raised"
                    /\ UNCHANGED <<reg_loss, cls_loss>>
               ELSE /\ raised' = raised
                    /\ pc' = "result"
                    /\ \E r \in {"zero", "positive"} : reg_loss' = r
                    /\ cls_loss' = "positive"
    /\ res' = res
    /\ UNCHANGED <<num_gt, labels_per_im, bboxes_per_im, matched_idx_all_per_im,
                   labels_all_per_im, loss_all_per_im, candidate_idxs, cls_labels_per_im,
                   matched_gts, reg_targets_per_im, gt, inds, components, scores,
                   is_pos, is_neg, is_grey>>
    /\ UNCHANGED <<matcherVars, orderVars, configVars>>

\* The local that line 356 reads as reg_norm.
reg_norm == IF use_iou_pred THEN sum_ious_targets_avg_per_gpu ELSE num_pos_avg_per_gpu

\* Lines 356-361 read these locals; reading an unassigned one raises
\* UnboundLocalError.
ResultLocalsBound ==
    /\ reg_norm # <<>>
    /\ cls_loss # "unbound"
    /\ num_pos_avg_per_gpu # <<>>
    /\ reg_loss # "unbound"
    /\ use_iou_pred => iou_pred_loss # "unbound"

\* Lines 356-361 with every local assigned.
BuildResult ==
    /\ pc = "result"
    /\ ResultLocalsBound
    /\ res' = [loss_cls |-> Divide(cls_loss, num_pos_avg_per_gpu),
               loss_reg |-> Divide(reg_loss, reg_norm),
               loss_iou_pred |-> IF use_iou_pred THEN iou_pred_loss ELSE "absent"]
    /\ pc' = "returned"
    /\ UNCHANGED <<raised, num_gt, labels_per_im, bboxes_per_im, matched_idx_all_per_im,
                   labels_all_per_im, loss_all_per_im, candidate_idxs, cls_labels_per_im,
                   matched_gts, reg_targets_per_im, gt, inds, components, scores,
                   is_pos, is_neg, is_grey>>
    /\ UNCHANGED <<matcherVars, orderVars, configVars, ious, num_pos_avg_per_gpu,
                   sum_ious_targets_avg_per_gpu, cls_loss, reg_loss, iou_pred_loss>>

\* Lines 356-357 with an unassigned local.
BuildResultUnbound ==
    /\ pc = "result"
    /\ ~ResultLocalsBound
    /\ raised' = "UnboundLocalError"
    /\ pc' = "raised"
    /\ UNCHANGED <<num_gt, labels_per_im, bboxes_per_im, matched_idx_all_per_im,
                   labels_all_per_im, loss_all_per_im, candidate_idxs, cls_labels_per_im,
                   matched_gts, reg_targets_per_im, gt, inds, components, scores,
                   is_pos, is_neg, is_grey>>
    /\ UNCHANGED <<matcherVars, orderVars, configVars, lossVars>>

\* A forward call on one image with at most CallMaxGT ground-truth rows, any
\* configured regression-loss kind, with or without the IoU-quality head, on
\* one or more workers.
InitCall ==
    /\ num_anchors_per_level = CallImageLevels
    /\ pc = "call"
    /\ raised = "none"
    /\ num_gt \in 0..CallMaxGT
    /\ labels_per_im \in [GTs(num_gt) -> 1..NumClasses]
    /\ bboxes_per_im = [g \in GTs(num_gt) |-> g + 1]
    /\ matched_idx_all_per_im = <<>>
    /\ labels_all_per_im = <<>>
    /\ NoAssignment
    /\ NoMatcher
    /\ NoOrder
    /\ reg_loss_type \in RegLossTypes
    /\ use_iou_pred \in BOOLEAN
    /\ num_gpus \in 1..MaxGpus
    /\ NoLosses

NextCall ==
    \/ PrepareTargets
    \/ ScoreAnchors
    \/ RegLossRaises
    \/ ZeroPositives
    \/ SelectCandidates
    \/ GtSkip
    \/ GtSingle
    \/ GtMixture
    \/ GtFitRaises
    \/ ReturnTargets
    \/ Aggregate
    \/ BuildResult
    \/ BuildResultUnbound

SpecCall == InitCall /\ [][NextCall]_vars

\* ------------------------------------------------------------------ claims
\* The candidates of ground-truth row g, as a set of anchors.
CandidateSet(g) == Range(candidate_idxs[g])

\* The step of row gt - 1 has just run the mixture branch: the locals inds,
\* components and scores are those of that row.
AfterMixtureStep ==
    /\ pc \in {"loop", "done"}
    /\ gt >= 1
    /\ Len(candidate_idxs[gt - 1]) > 1

\* C2: when the mixture fit of a ground-truth with two or more candidates
\* raises, the error does not leave compute_paa: all candidates of that
\* ground-truth are positive and the loop goes on.
C2_FitFailureRecovered ==
    raised = "MixtureFitError" =>
        /\ pc # "raised"
        /\ \A a \in CandidateSet(gt) : cls_labels_per_im[a] = labels_per_im[gt]

\* C3: at the end of compute_paa every anchor with a positive final label has
\* exactly one ground-truth row g whose class is the anchor's label and whose
\* box is the box encoded as the anchor's regression target.
C3_LabelAndBoxFromSameGT ==
    pc = "done" =>
        \A a \in Anchors :
            cls_labels_per_im[a] > 0 =>
                Cardinality({g \in GTs(num_gt) :
                    /\ cls_labels_per_im[a] = labels_per_im[g]
                    /\ matched_gts[a] = bboxes_per_im[g]
                    /\ reg_targets_per_im[a] = Encode(bboxes_per_im[g], a)}) = 1

\* C3's case: two ground-truth rows of different classes both made anchors
\* positive.
C3_Witness ==
    /\ pc = "done"
    /\ num_gt = 2
    /\ labels_per_im[0] # labels_per_im[1]
    /\ \E a, b \in Anchors :
        /\ cls_labels_per_im[a] = labels_per_im[0]
        /\ cls_labels_per_im[b] = labels_per_im[1]
        /\ matched_idx_all_per_im[a] = 0
        /\ matched_idx_all_per_im[b] = 1

\* C5: for every ground-truth row with at least one candidate, a candidate of
\* the lowest anchor score (the one the ascending sort ranks first) ends
\* compute_paa with the row's class as its label, whatever the fit returned
\* and whatever rows were processed before or after.
C5_LowestScoreCandidatePositive ==
    pc = "done" =>
        \A g \in GTs(num_gt) :
            candidate_idxs[g] # None =>
                \E c \in CandidateSet(g) :
                    /\ \A d \in CandidateSet(g) : loss_all_per_im[c] <= loss_all_per_im[d]
                    /\ cls_labels_per_im[c] = labels_per_im[g]
                    /\ cls_labels_per_im[c] > 0

\* C5's case: a row with three candidates of which the fit put the first in
\* component 1 and a later one in component 0, followed by another row with
\* candidates.
C5_Witness ==
    /\ pc = "done"
    /\ num_gt = 2
    /\ Len(candidate_idxs[0]) = 3
    /\ candidate_idxs[1] # None
    /\ \E a \in CandidateSet(0) : cls_labels_per_im[a] = 0

\* The cutoff of C9, stated from the claim: the lowest rank among the
\* component-0 ranks of maximum log-likelihood.
C9_Cutoff ==
    CHOOSE r \in DOMAIN components :
        /\ components[r] = 0
        /\ \A q \in DOMAIN components : components[q] = 0 => scores[q] <= scores[r]
        /\ \A q \in DOMAIN components :
            (components[q] = 0 /\ scores[q] = scores[r]) => r <= q

\* C9: after the step of a ground-truth with two or more candidates of which
\* at least one is in component 0, exactly the candidates at the ranks up to
\* the cutoff carry the ground-truth's class and box, and every other
\* candidate carries label 0, never -1.
C9_PrefixUpToCutoffPositive ==
    (AfterMixtureStep /\ \E r \in DOMAIN components : components[r] = 0) =>
        \A r \in 1..Len(candidate_idxs[gt - 1]) :
            LET a == candidate_idxs[gt - 1][inds[r]]
            IN  IF r <= C9_Cutoff
                THEN /\ cls_labels_per_im[a] = labels_per_im[gt - 1]
                     /\ matched_gts[a] = bboxes_per_im[gt - 1]
                ELSE cls_labels_per_im[a] = 0

\* C9's case: three candidates, two component-0 ranks tie for the maximum
\* log-likelihood, and the cutoff is strictly inside the order.
C9_Witness ==
    /\ AfterMixtureStep
    /\ Len(candidate_idxs[gt - 1]) = 3
    /\ components = <<1, 0, 0>>
    /\ scores[2] = scores[3]
    /\ cls_labels_per_im[candidate_idxs[gt - 1][inds[2]]] = labels_per_im[gt - 1]
    /\ cls_labels_per_im[candidate_idxs[gt - 1][inds[3]]] = 0

\* C10: after the step of a ground-truth with two or more candidates none of
\* which the fit put in component 0, all its candidates carry its class, and
\* the step wrote no background and no ignored label (is_neg, is_grey are None).
C10_NoComponentZeroAllPositive ==
    (AfterMixtureStep /\ \A r \in DOMAIN components : components[r] # 0) =>
        /\ \A a \in CandidateSet(gt - 1) :
            /\ cls_labels_per_im[a] = labels_per_im[gt - 1]
            /\ matched_gts[a] = bboxes_per_im[gt - 1]
        /\ is_neg = None
        /\ is_grey = None

\* C10's case: three candidates, all in component 1, all positive.
C10_Witness ==
    /\ AfterMixtureStep
    /\ components = <<1, 1, 1>>
    /\ \A a \in CandidateSet(gt - 1) : cls_labels_per_im[a] = labels_per_im[gt - 1]

\* An anchor achieves ground-truth g's own maximum quality.
AchievesMaxOf(a, g) ==
    \A b \in Anchors : match_quality_matrix[g][b] <= match_quality_matrix[g][a]

\* Ground-truth g is the best ground-truth of anchor a, the lowest index on ties.
BestGTOf(a, g) ==
    \A h \in GTs(num_gt) :
        \/ match_quality_matrix[h][a] < match_quality_matrix[g][a]
        \/ (match_quality_matrix[h][a] = match_quality_matrix[g][a] /\ g <= h)

\* C6, as stated: with low-quality matches allowed, every ground-truth index is
\* the matched index of at least one anchor.
C6_EveryGTMatched ==
    pc = "matched" =>
        \A g \in GTs(num_gt) : \E a \in Anchors : matched_idx_all_per_im[a] = g

\* C6, amended: every anchor that achieves the maximum quality of some
\* ground-truth is matched to a ground-truth index, its own best one, never to
\* a sentinel; so a ground-truth index appears in the output whenever one of its
\* maximum-quality anchors has it as best ground-truth.
C6_MaxQualityAnchorsMatched ==
    pc = "matched" =>
        \A g \in GTs(num_gt) : \A a \in Anchors :
            AchievesMaxOf(a, g) =>
                /\ matched_idx_all_per_im[a] \in GTs(num_gt)
                /\ BestGTOf(a, matched_idx_all_per_im[a])
                /\ labels_all_per_im[a] = labels_per_im[matched_idx_all_per_im[a]]
                /\ BestGTOf(a, g) => matched_idx_all_per_im[a] = g

\* C6's case: one anchor alone achieves the maximum quality of two
\* ground-truths, below the threshold, and is matched to the first of them.
C6_Witness ==
    /\ pc = "matched"
    /\ num_gt = 2
    /\ \E a \in Anchors :
        /\ AchievesMaxOf(a, 0) /\ AchievesMaxOf(a, 1)
        /\ \A b \in Anchors \ {a} : ~AchievesMaxOf(b, 0) /\ ~AchievesMaxOf(b, 1)
        /\ match_quality_matrix[0][a] < iou_threshold
        /\ matched_idx_all_per_im[a] = 0

\* The regression-loss kinds the configuration recognizes (GIoU and smooth-L1,
\* the latter in the code's and in the spec's spelling).
RecognizedKinds == {Kind_giou, Kind_smoothl1, Kind_smooth_l1}

\* The call is past line 288 and found no IoU-positive anchor.
ZeroPositiveCall ==
    /\ pc \in {"prepared", "result", "raised", "returned"}
    /\ \A a \in Anchors : labels_all_per_im[a] <= 0

\* C1: a forward call with zero positive anchors completes without an error
\* and returns both losses; every local read when the result is built has been
\* assigned on that path.
C1_ZeroPositivesReturnLosses ==
    ZeroPositiveCall =>
        /\ raised = "none"
        /\ pc = "result" => ResultLocalsBound
        /\ pc = "returned" => res.loss_cls \in {"zero", "positive"}

\* The first regression-loss computation of the call returned a loss.
RegLossReturned ==
    \/ pc \in {"select", "loop", "done"}
    \/ pc \in {"result", "returned"} /\ \E a \in Anchors : labels_all_per_im[a] > 0

\* C7: a regression-loss kind other than the recognized ones is never computed
\* as a recognized loss: its first regression-loss computation raises
\* NotImplementedError.
C7_UnrecognizedKindRejected ==
    reg_loss_type \notin RecognizedKinds =>
        /\ ~RegLossReturned
        /\ raised \in {"none", "NotImplementedError"}

\* A loss value is finite and non-negative.
FiniteNonNegative(x) == x \in {"zero", "positive"}

\* C8: every returned loss is finite and non-negative, and each normalizer is
\* strictly positive: the positive-count denominator is at least 1, and with
\* the IoU-quality head the regression normalizer is not zero.
C8_NormalizersPositive ==
    pc = "returned" =>
        /\ num_pos_avg_per_gpu[1] >= num_pos_avg_per_gpu[2]
        /\ reg_norm[1] > 0
        /\ FiniteNonNegative(res.loss_cls)
        /\ FiniteNonNegative(res.loss_reg)
        /\ use_iou_pred => FiniteNonNegative(res.loss_iou_pred)

\* C11: a step of the loop on a ground-truth row without candidates changes no
\* entry of the label and box arrays; a step on a row with exactly one
\* candidate gives that anchor the row's class and box, changes no other entry,
\* and leaves the locals of the mixture fit (inds, components, scores) as they
\* were: the fit is not invoked and nothing is raised.
C11_ZeroOrOneCandidate ==
    [][InLoop =>
        /\ candidate_idxs[gt] = None =>
            /\ cls_labels_per_im' = cls_labels_per_im
            /\ matched_gts' = matched_gts
        /\ Len(candidate_idxs[gt]) = 1 =>
            /\ cls_labels_per_im' =
                  [cls_labels_per_im EXCEPT ![candidate_idxs[gt][1]] = labels_per_im[gt]]
            /\ matched_gts' =
                  [matched_gts EXCEPT ![candidate_idxs[gt][1]] = bboxes_per_im[gt]]
            /\ <<inds, components, scores>>' = <<inds, components, scores>>
            /\ raised' = raised
            /\ gt' = gt + 1]_vars

\* C11's case: the loop has processed a row without candidates and then a row
\* with exactly one, whose anchor now carries the row's class and box.
C11_Witness ==
    /\ pc = "loop"
    /\ num_gt = 2
    /\ gt = 2
    /\ candidate_idxs[0] = None
    /\ Len(candidate_idxs[1]) = 1
    /\ cls_labels_per_im[candidate_idxs[1][1]] = labels_per_im[1]
    /\ matched_gts[candidate_idxs[1][1]] = bboxes_per_im[1]
    /\ \A a \in Anchors \ {candidate_idxs[1][1]} : cls_labels_per_im[a] = 0

\* The anchors of a pyramid level, as indices of the concatenated anchor list.
LevelRange(level) == (star_idx(level) + 1)..end_idx(level)

\* The pyramid level an anchor belongs to.
LevelOf(a) == CHOOSE level \in 1..NumLevels : a \in LevelRange(level)

\* The anchors of a level that are eligible for ground-truth row g: IoU-based
\* match equal to g and IoU-based label positive.
EligibleAnchors(level, g) ==
    {a \in LevelRange(level) :
        matched_idx_all_per_im[a] = g /\ labels_all_per_im[a] > 0}

CandidatesBuilt == pc \in {"loop", "done", "raised"}

\* C12: once the candidates are built, for every ground-truth row g and every
\* pyramid level with n eligible anchors, exactly min(n, TOPK) entries of g's
\* candidate list lie in that level's index range, all of them eligible and
\* none with a strictly higher score than an unselected eligible anchor of the
\* level; the list holds the levels' selections in level order without
\* repetition, every entry is an anchor of the image, and so the candidate set
\* has at most num_pyramid_levels x TOPK distinct anchors.
C12_TopkPerLevel ==
    CandidatesBuilt =>
        \A g \in GTs(num_gt) :
            LET cand == candidate_idxs[g] IN
            /\ \A i \in DOMAIN cand : cand[i] \in Anchors
            /\ Injective(cand)
            /\ \A i, j \in DOMAIN cand : i < j => LevelOf(cand[i]) <= LevelOf(cand[j])
            /\ Cardinality(CandidateSet(g)) <= NumLevels * TOPK
            /\ \A level \in 1..NumLevels :
                LET E == EligibleAnchors(level, g)
                    S == CandidateSet(g) \cap LevelRange(level)
                IN  /\ Cardinality(S) = Min(Cardinality(E), TOPK)
                    /\ S \subseteq E
                    /\ \A a \in S : \A e \in E \ S :
                          loss_all_per_im[a] <= loss_all_per_im[e]

\* C12's case: a row with more than TOPK eligible anchors on the first level,
\* one of them left out with a strictly higher score than a selected one, and
\* a selected anchor on the second level as well.
C12_Witness ==
    /\ CandidatesBuilt
    /\ num_gt >= 1
    /\ Cardinality(EligibleAnchors(1, 0)) > TOPK
    /\ Cardinality(CandidateSet(0) \cap LevelRange(1)) = TOPK
    /\ \E e \in EligibleAnchors(1, 0) \ CandidateSet(0) :
         \E a \in CandidateSet(0) : loss_all_per_im[a] < loss_all_per_im[e]
    /\ CandidateSet(0) \cap LevelRange(2) # {}

\* The anchors whose label or box a step changes.
WrittenByStep ==
    {a \in Anchors :
        \/ cls_labels_per_im'[a] # cls_labels_per_im[a]
        \/ matched_gts'[a] # matched_gts[a]}

\* Every candidate of a row has that row as its IoU-based matched index, and
\* the candidate sets of two different rows share no anchor.
CandidateSetsDisjoint ==
    CandidatesBuilt =>
        /\ \A g \in GTs(num_gt) : \A a \in CandidateSet(g) : matched_idx_all_per_im[a] = g
        /\ \A g, h \in GTs(num_gt) : g # h => CandidateSet(g) \cap CandidateSet(h) = {}

\* C13: within one image the candidate sets of two different ground-truth rows
\* are always disjoint (an anchor is a candidate only of the row equal to its
\* IoU-based matched index), and the step of a row writes the label and box of
\* its own candidates only, so no anchor is written by the steps of two rows.
C13_CandidateSetsDisjoint ==
    /\ []CandidateSetsDisjoint
    /\ [][InLoop =>
            \A a \in WrittenByStep :
                /\ a \in CandidateSet(gt)
                /\ \A h \in GTs(num_gt) \ {gt} : a \notin CandidateSet(h)]_vars

\* C13's case: two rows, each with candidates, have both been committed and
\* each made one of its candidates positive.
C13_Witness ==
    /\ pc = "loop"
    /\ num_gt = 2
    /\ gt = 2
    /\ \E a \in CandidateSet(0) : cls_labels_per_im[a] = labels_per_im[0]
    /\ \E b \in CandidateSet(1) : cls_labels_per_im[b] = labels_per_im[1]
    /\ Cardinality(CandidateSet(0)) > 1

\* C14: the final labels and boxes of an image do not depend on the order in
\* which the ground-truth rows are processed: when the rows' writes have run in
\* any serialized interleaving, with the same fit result per row, the arrays
\* returned are those the loop produces in the order of the code.
C14_OrderIndependent ==
    (pc = "done" /\ Len(fit_results) = num_gt) =>
        /\ cls_labels_per_im = LabelsInCodeOrder(num_gt)
        /\ matched_gts = BoxesInCodeOrder(num_gt)
        /\ reg_targets_per_im = [a \in Anchors |-> Encode(BoxesInCodeOrder(num_gt)[a], a)]

\* C14's case: two rows of different classes, one with two candidates and a
\* fit that left a candidate negative, the other with one candidate, where
\* row 0 (which the code processes first) did the last write.
C14_Witness ==
    /\ pc = "done"
    /\ num_gt = 2
    /\ Len(fit_results) = 2
    /\ gt = 0
    /\ labels_per_im[0] # labels_per_im[1]
    /\ Len(candidate_idxs[0]) > 1
    /\ candidate_idxs[1] # None
    /\ \E a \in CandidateSet(0) : cls_labels_per_im[a] = 0
    /\ \E b \in CandidateSet(1) : cls_labels_per_im[b] = labels_per_im[1]

====
